---- MODULE Spec2Model ----
(***************************************************************************)
(* State-machine model of helix-view/src/file_tree.rs: the lazily loaded   *)
(* file tree (FileTreeItem, FileTree), its pre-order flattening, the       *)
(* selection cursor and the structural operations on the selected node.    *)
(*                                                                         *)
(* Strings are sequences of character codes, paths are sequences of path   *)
(* components, Option<T> is a sequence of length 0 (None) or 1 (Some), and *)
(* a `&mut FileTreeItem` is the sequence of child indices leading from the *)
(* root to the borrowed node.                                              *)
(***************************************************************************)
EXTENDS Integers, Sequences, FiniteSets, TLC

\* Bound of the model: the working directory holds at most this many entries,
\* the directories below it fewer (see Capacity).
MaxEntries == 3

None == <<>>
Some(v) == <<v>>

----------------------------------------------------------------------------
\* The disk.  Entry i of the pool is the i-th name a directory may hold; the
\* kind of a name is fixed, the contents of a directory may differ between
\* two reads.  The disk is finite: a directory can hold the first Capacity
\* entries of the pool, and Capacity shrinks on the way down from the
\* working directory, faster at greater depth and for a directory with a
\* later name.

\* ASCII codes of the names in use: "b", "a", "C", "D", "e", "F", ...
PoolName(i) ==
    IF i = 1 THEN <<98>>
    ELSE IF i = 2 THEN <<97>>
    ELSE IF i % 2 = 1 THEN <<64 + i>>
    ELSE <<96 + i + 1>>

\* "b" and "C" are directories, every other name is a file.
PoolIsDir(i) == i \in {1, 3}

PoolSize == MaxEntries + 1

\* The component naming the working directory when it is not "/".
CwdName == <<119>>

\* std::env::current_dir(): "/" or "/w".
Cwds == {<<>>, <<CwdName>>}

DiskDepth(path) ==
    IF path # <<>> /\ path[1] = CwdName THEN Len(path) - 1 ELSE Len(path)

PoolIndex(name) == CHOOSE i \in 1..PoolSize : PoolName(i) = name

PathIsDir(path) ==
    \/ DiskDepth(path) = 0
    \/ /\ \E i \in 1..PoolSize : PoolName(i) = path[Len(path)]
       /\ PoolIsDir(PoolIndex(path[Len(path)]))

\* The number of pool entries the directory at `path` can hold.
RECURSIVE Capacity(_)
Capacity(path) ==
    IF DiskDepth(path) = 0 THEN MaxEntries
    ELSE LET c == Capacity(SubSeq(path, 1, Len(path) - 1))
                     - DiskDepth(path)
                          * ((PoolIndex(path[Len(path)]) + 1) \div 2)
         IN  IF c < 0 THEN 0 ELSE c

\* char::to_lowercase on ASCII.
CharToLower(c) == IF c >= 65 /\ c <= 90 THEN c + 32 ELSE c

\* String::to_lowercase
to_lowercase(s) == [i \in 1..Len(s) |-> CharToLower(s[i])]

\* <String as Ord>::cmp: lexicographic on the bytes.
RECURSIVE StrCmp(_, _)
StrCmp(a, b) ==
    IF a = <<>> /\ b = <<>> THEN "Equal"
    ELSE IF a = <<>> THEN "Less"
    ELSE IF b = <<>> THEN "Greater"
    ELSE IF a[1] < b[1] THEN "Less"
    ELSE IF a[1] > b[1] THEN "Greater"
    ELSE StrCmp(Tail(a), Tail(b))

\* The display ordering rule of the directory lister on pool entries:
\* directories before files, then case-insensitive name order.
PoolBefore(i, j) ==
    \/ PoolIsDir(i) /\ ~PoolIsDir(j)
    \/ /\ PoolIsDir(i) = PoolIsDir(j)
       /\ StrCmp(to_lowercase(PoolName(i)), to_lowercase(PoolName(j))) # "Greater"

\* Every listing the lister may return for a directory that can hold the
\* first k pool entries: any subset of them, in display order.
SortedIndexSeqs ==
    [k \in 0..MaxEntries |->
        UNION { { s \in [1..Cardinality(S) -> S] :
                    \A a, b \in 1..Cardinality(S) : a < b =>
                        /\ s[a] # s[b]
                        /\ PoolBefore(s[a], s[b]) } : S \in SUBSET (1..k) }]

DirEntryOf(path, i) ==
    [file_name |-> PoolName(i), path |-> Append(path, PoolName(i)),
     is_dir |-> PoolIsDir(i)]

\* helix_stdx::path::read_dir_sorted(path, false): the set of listings a
\* read may return.  A path that is not a directory lists as empty.
read_dir_sorted(path) ==
    IF ~PathIsDir(path)
    THEN { <<>> }
    ELSE { [n \in 1..Len(s) |-> DirEntryOf(path, s[n])] :
             s \in SortedIndexSeqs[Capacity(path)] }

----------------------------------------------------------------------------
\* FileTreeItem

\* FileTreeItem::new
New(name, path, is_dir) ==
    [name |-> name, path |-> path, is_dir |-> is_dir,
     is_expanded |-> FALSE, children |-> <<>>]

\* FileTreeItem::root
Root(name, path, children) ==
    [name |-> name, path |-> path, is_dir |-> TRUE,
     is_expanded |-> TRUE, children |-> children]

\* impl From<DirEntry> for FileTreeItem
From(value) == New(value.file_name, value.path, value.is_dir)

FromListing(dir) == [n \in 1..Len(dir) |-> From(dir[n])]

\* expand that treats loaded children as a cache: the listing is stored only
\* when no children are loaded.
expand_cached(item, dir) ==
    IF item.children # <<>> THEN [item EXCEPT !.is_expanded = TRUE]
    ELSE [item EXCEPT !.is_expanded = TRUE, !.children = FromListing(dir)]

\* FileTreeItem::expand, with the listing the read returned
expand(item, dir) ==
    [item EXCEPT !.is_expanded = TRUE, !.children = FromListing(dir)]

\* collapse that only hides the children: the flag is reset, the children
\* stay loaded.
collapse_keeps_children(item) ==
    [item EXCEPT !.is_expanded = FALSE]

\* FileTreeItem::collapse
collapse(item) ==
    [item EXCEPT !.is_expanded = FALSE, !.children = <<>>]

\* impl Ord for FileTreeItem
cmp(item, other) ==
    LET name == to_lowercase(item.name)
        other_name == to_lowercase(other.name)
    IN  IF item.is_dir /\ other.is_dir THEN StrCmp(name, other_name)
        ELSE IF item.is_dir /\ ~other.is_dir THEN "Less"
        ELSE IF ~item.is_dir /\ other.is_dir THEN "Greater"
        ELSE StrCmp(name, other_name)

----------------------------------------------------------------------------
\* FileTree

\* fold_home_dir(&cwd).to_string_lossy(): the display name of the root.
RootName(cwd) == IF cwd = <<>> THEN <<47>> ELSE <<47>> \o cwd[1]

\* FileTree::new, with the working directory and the listing read
FileTreeNew(cwd, dir) ==
    [root |-> Root(RootName(cwd), cwd, FromListing(dir)),
     selection |-> 0, open |-> FALSE, copied |-> None]

\* FileTree::flatten_
RECURSIVE flatten_(_, _)
RECURSIVE flatten_children(_, _, _)
\* flatten_ that pushes the node only in the branch without children.
flatten_without_parent(node, depth) ==
    IF node.children = <<>> THEN << <<node, depth>> >>
    ELSE flatten_children(node.children, 1, depth)

flatten_(node, depth) ==
    IF node.children = <<>> THEN << <<node, depth>> >>
    ELSE << <<node, depth>> >> \o flatten_children(node.children, 1, depth)

\* The loop of flatten_ that passes its own depth on to the children.
RECURSIVE flatten_children_same_depth(_, _, _)
flatten_children_same_depth(children, i, depth) ==
    IF i > Len(children) THEN <<>>
    ELSE flatten_(children[i], depth)
            \o flatten_children_same_depth(children, i + 1, depth)

flatten_children(children, i, depth) ==
    IF i > Len(children) THEN <<>>
    ELSE flatten_(children[i], depth + 1)
            \o flatten_children(children, i + 1, depth)

\* FileTree::flatten_with_depth
flatten_with_depth(t) == flatten_(t.root, 0)

\* FileTree::flatten
flatten(t) ==
    LET items == flatten_(t.root, 0)
    IN  [i \in 1..Len(items) |-> items[i][1]]

\* FileTree::selected_ : the result and the value left in *n
RECURSIVE selected_(_, _)
RECURSIVE selected_children(_, _, _)
selected_(node, n) ==
    IF n = 0 THEN [result |-> Some(node), n |-> n]
    ELSE selected_children(node.children, 1, n - 1)

\* The loop of selected_ with `n` passed by value: what a child consumed is
\* forgotten when the next child is searched.
RECURSIVE selected_children_by_value(_, _, _)
selected_children_by_value(children, i, n) ==
    IF i > Len(children) THEN [result |-> None, n |-> n]
    ELSE LET r == selected_(children[i], n)
         IN  IF r.result # None THEN r
             ELSE selected_children_by_value(children, i + 1, n)

selected_children(children, i, n) ==
    IF i > Len(children) THEN [result |-> None, n |-> n]
    ELSE LET r == selected_(children[i], n)
         IN  IF r.result # None THEN r
             ELSE selected_children(children, i + 1, r.n)

\* FileTree::selected_mut_ : as selected_, the result being the borrow of
\* the node (ref is the borrow of `node`)
RECURSIVE selected_mut_(_, _, _)
RECURSIVE selected_mut_children(_, _, _, _)
selected_mut_(node, n, ref) ==
    IF n = 0 THEN [result |-> Some(ref), n |-> n]
    ELSE selected_mut_children(node.children, 1, n - 1, ref)

selected_mut_children(children, i, n, ref) ==
    IF i > Len(children) THEN [result |-> None, n |-> n]
    ELSE LET r == selected_mut_(children[i], n, Append(ref, i))
         IN  IF r.result # None THEN r
             ELSE selected_mut_children(children, i + 1, r.n, ref)

\* FileTree::find_with_path_ : the borrow of the first node, in pre-order,
\* whose path is `path`
RECURSIVE find_with_path_(_, _, _)
RECURSIVE find_with_path_children(_, _, _, _)
find_with_path_(node, path, ref) ==
    IF node.path = path THEN Some(ref)
    ELSE find_with_path_children(node.children, 1, path, ref)

find_with_path_children(children, i, path, ref) ==
    IF i > Len(children) THEN None
    ELSE LET r == find_with_path_(children[i], path, Append(ref, i))
         IN  IF r # None THEN r
             ELSE find_with_path_children(children, i + 1, path, ref)

\* Reading through a borrow.
RECURSIVE Deref(_, _)
Deref(node, ref) ==
    IF ref = <<>> THEN node ELSE Deref(node.children[ref[1]], Tail(ref))

\* Writing through a mutable borrow.
RECURSIVE Store(_, _, _)
Store(node, ref, new) ==
    IF ref = <<>> THEN new
    ELSE [node EXCEPT !.children[ref[1]] = Store(@, Tail(ref), new)]

\* selected() that counts the entries from one instead of zero.
selected_one_based(t) == selected_(t.root, t.selection + 1).result

\* FileTree::selected
selected(t) == selected_(t.root, t.selection).result

\* selected_mut() that borrows the entry before the selected one.
selected_mut_previous(t) ==
    selected_mut_(t.root, IF t.selection >= 1 THEN t.selection - 1 ELSE 0,
                  <<>>).result

\* FileTree::selected_mut
selected_mut(t) == selected_mut_(t.root, t.selection, <<>>).result

\* FileTree::find_with_path
find_with_path(t, path) == find_with_path_(t.root, path, <<>>)

\* Path::parent
parent(path) ==
    IF path = <<>> THEN None ELSE Some(SubSeq(path, 1, Len(path) - 1))

\* position() with a predicate that compares the kind only.
RECURSIVE position_by_kind(_, _, _)
position_by_kind(children, item, i) ==
    IF i > Len(children) THEN None
    ELSE IF children[i].is_dir = item.is_dir THEN Some(i)
    ELSE position_by_kind(children, item, i + 1)

\* Iterator::position(|c| *c == selected)
RECURSIVE position(_, _, _)
position(children, item, i) ==
    IF i > Len(children) THEN None
    ELSE IF children[i] = item THEN Some(i)
    ELSE position(children, item, i + 1)

\* Vec::swap_remove: the last element takes the place of the removed one.
swap_remove(v, i) ==
    IF i = Len(v) THEN SubSeq(v, 1, Len(v) - 1)
    ELSE [k \in 1..(Len(v) - 1) |-> IF k = i THEN v[Len(v)] ELSE v[k]]

\* Vec::remove
remove(v, i) == SubSeq(v, 1, i - 1) \o SubSeq(v, i + 1, Len(v))

\* take_selected that moves the cursor to the entry before the detached one.
take_selected_steps_back(t) ==
    LET sel == selected(t)
    IN  IF sel = None THEN [self |-> t, ret |-> None, panic |-> FALSE]
        ELSE
        LET pp == parent(sel[1].path)
        IN  IF pp = None THEN [self |-> t, ret |-> None, panic |-> TRUE]
            ELSE
            LET pr == find_with_path(t, pp[1])
            IN  IF pr = None THEN [self |-> t, ret |-> None, panic |-> FALSE]
                ELSE
                LET par == Deref(t.root, pr[1])
                    pos == position(par.children, sel[1], 1)
                IN  IF pos = None
                    THEN [self |-> t, ret |-> None, panic |-> TRUE]
                    ELSE [self |-> [t EXCEPT
                                      !.root =
                                         Store(t.root, pr[1],
                                               [par EXCEPT !.children =
                                                  remove(par.children, pos[1])]),
                                      !.selection = t.selection - 1],
                          ret |-> Some(par.children[pos[1]]),
                          panic |-> FALSE]

\* FileTree::take_selected : the tree afterwards, the value returned, and
\* whether an unwrap() panicked
take_selected(t) ==
    LET sel == selected(t)
    IN  IF sel = None THEN [self |-> t, ret |-> None, panic |-> FALSE]
        ELSE
        LET pp == parent(sel[1].path)
        IN  IF pp = None THEN [self |-> t, ret |-> None, panic |-> TRUE]
            ELSE
            LET pr == find_with_path(t, pp[1])
            IN  IF pr = None THEN [self |-> t, ret |-> None, panic |-> FALSE]
                ELSE
                LET par == Deref(t.root, pr[1])
                    pos == position(par.children, sel[1], 1)
                IN  IF pos = None
                    THEN [self |-> t, ret |-> None, panic |-> TRUE]
                    ELSE [self |-> [t EXCEPT !.root =
                                      Store(t.root, pr[1],
                                            [par EXCEPT !.children =
                                               remove(par.children, pos[1])])],
                          ret |-> Some(par.children[pos[1]]),
                          panic |-> FALSE]

\* usize::saturating_sub
saturating_sub(a, b) == IF a >= b THEN a - b ELSE 0

\* FileTree::move_up
move_up(t) == [t EXCEPT !.selection = saturating_sub(t.selection, 1)]

\* move_down that stops one entry early.
move_down_stops_early(t) ==
    LET len == Len(flatten(t))
    IN  IF t.selection < len - 2
        THEN [t EXCEPT !.selection = t.selection + 1]
        ELSE t

\* FileTree::move_down
move_down(t) ==
    LET len == Len(flatten(t))
    IN  IF t.selection < len - 1
        THEN [t EXCEPT !.selection = t.selection + 1]
        ELSE t

\* FileTree::goto_start
goto_start(t) == [t EXCEPT !.selection = 0]

\* goto_end that forgets the - 1.
goto_end_past_the_end(t) ==
    LET len == Len(flatten(t))
    IN  [t EXCEPT !.selection = len]

\* FileTree::goto_end
goto_end(t) ==
    LET len == Len(flatten(t))
    IN  [t EXCEPT !.selection = len - 1]

\* reload that rebuilds the graph and keeps the cursor where it was.
reload_keeps_selection(t, cwd, dir) ==
    [FileTreeNew(cwd, dir) EXCEPT !.open = TRUE, !.selection = t.selection]

\* FileTree::reload, with the working directory and the listing read
reload(t, cwd, dir) == [FileTreeNew(cwd, dir) EXCEPT !.open = TRUE]

----------------------------------------------------------------------------
\* The state machine: one FileTree driven through its public operations.

VARIABLES
    root,        \* FileTree.root
    selection,   \* FileTree.selection
    open,        \* FileTree.open
    copied,      \* FileTree.copied
    cwd,         \* the working directory of the process
    ret,         \* <<r>> when the call just made was take_selected and
                 \* returned r, else <<>>
    panicked,    \* an unwrap() failed: the process is gone
    dropped      \* <<c>> when the call just made was reload and dropped,
                 \* with the old *self, a `copied` of c; else <<>>

NoCall == <<>>

vars == <<root, selection, open, copied, cwd, ret, panicked, dropped>>

self == [root |-> root, selection |-> selection, open |-> open,
         copied |-> copied]

Becomes(t) ==
    /\ root' = t.root
    /\ selection' = t.selection
    /\ open' = t.open
    /\ copied' = t.copied

Init ==
    /\ cwd \in Cwds
    /\ \E dir \in read_dir_sorted(cwd) :
          /\ root = FileTreeNew(cwd, dir).root
          /\ selection = FileTreeNew(cwd, dir).selection
          /\ open = FileTreeNew(cwd, dir).open
          /\ copied = FileTreeNew(cwd, dir).copied
    /\ ret = NoCall
    /\ panicked = FALSE
    /\ dropped = NoCall

MoveUp ==
    /\ ~panicked
    /\ Becomes(move_up(self))
    /\ ret' = NoCall
    /\ dropped' = NoCall
    /\ UNCHANGED <<cwd, panicked>>

MoveDown ==
    /\ ~panicked
    /\ Becomes(move_down(self))
    /\ ret' = NoCall
    /\ dropped' = NoCall
    /\ UNCHANGED <<cwd, panicked>>

GotoStart ==
    /\ ~panicked
    /\ Becomes(goto_start(self))
    /\ ret' = NoCall
    /\ dropped' = NoCall
    /\ UNCHANGED <<cwd, panicked>>

GotoEnd ==
    /\ ~panicked
    /\ Becomes(goto_end(self))
    /\ ret' = NoCall
    /\ dropped' = NoCall
    /\ UNCHANGED <<cwd, panicked>>

\* selected_mut() and expand() on the node it returns
ExpandSelected ==
    /\ ~panicked
    /\ ret' = NoCall
    /\ dropped' = NoCall
    /\ UNCHANGED <<selection, open, copied, cwd, panicked>>
    /\ LET r == selected_mut(self)
       IN  IF r = None THEN UNCHANGED root
           ELSE \E dir \in read_dir_sorted(Deref(root, r[1]).path) :
                   root' = Store(root, r[1], expand(Deref(root, r[1]), dir))

\* selected_mut() and collapse() on the node it returns
CollapseSelected ==
    /\ ~panicked
    /\ ret' = NoCall
    /\ dropped' = NoCall
    /\ UNCHANGED <<selection, open, copied, cwd, panicked>>
    /\ LET r == selected_mut(self)
       IN  IF r = None THEN UNCHANGED root
           ELSE root' = Store(root, r[1], collapse(Deref(root, r[1])))

TakeSelected ==
    /\ ~panicked
    /\ LET r == take_selected(self)
       IN  /\ Becomes(r.self)
           /\ ret' = <<r.ret>>
           /\ panicked' = r.panic
    /\ dropped' = NoCall
    /\ UNCHANGED cwd

\* A reload that assigns the rebuilt root, selection and open field by field
\* and leaves `copied` alone.
Reload_keeps_copied ==
    /\ ~panicked
    /\ \E dir \in read_dir_sorted(cwd) :
          /\ root' = reload(self, cwd, dir).root
          /\ selection' = reload(self, cwd, dir).selection
          /\ open' = reload(self, cwd, dir).open
    /\ ret' = NoCall
    /\ dropped' = <<copied>>
    /\ UNCHANGED <<copied, cwd, panicked>>

Reload ==
    /\ ~panicked
    /\ \E dir \in read_dir_sorted(cwd) : Becomes(reload(self, cwd, dir))
    /\ ret' = NoCall
    /\ dropped' = <<copied>>
    /\ UNCHANGED <<cwd, panicked>>

Next ==
    \/ MoveUp
    \/ MoveDown
    \/ GotoStart
    \/ GotoEnd
    \/ ExpandSelected
    \/ CollapseSelected
    \/ TakeSelected
    \/ Reload

Spec == Init /\ [][Next]_vars

----------------------------------------------------------------------------
\* insert_and_adjust, which the nested-tree FileTree no longer has: the
\* algorithm of the design (the flat, depth-annotated list), carried over to
\* the pre-order sequence of the tree.

\* The positions of the nodes in the order flatten_ emits them.
RECURSIVE PreorderPositions(_, _)
RECURSIVE PreorderPositionsOfChildren(_, _, _)
PreorderPositions(node, pos) ==
    <<pos>> \o PreorderPositionsOfChildren(node.children, 1, pos)

PreorderPositionsOfChildren(children, i, pos) ==
    IF i > Len(children) THEN <<>>
    ELSE PreorderPositions(children[i], Append(pos, i))
            \o PreorderPositionsOfChildren(children, i + 1, pos)

\* Vec::insert
InsertAt(v, k, e) == SubSeq(v, 1, k - 1) \o <<e>> \o SubSeq(v, k, Len(v))

\* insert_and_adjust(node): scan forward from just after the selection for
\* the first entry at the depth of the selected entry that compares greater
\* than `node`, and insert `node` immediately before it.  None when there
\* is no such entry: the design does not say what happens then.
insert_and_adjust(t, node) ==
    LET flat == flatten_with_depth(t)
        places == PreorderPositions(t.root, <<>>)
        i == t.selection + 1
        d == flat[i][2]
        hits == { j \in (i + 1)..Len(flat) :
                    flat[j][2] = d /\ cmp(flat[j][1], node) = "Greater" }
    IN  IF hits = {} THEN None
        ELSE LET j == CHOOSE h \in hits : \A g \in hits : h <= g
                 pos == places[j]
                 dir == SubSeq(pos, 1, Len(pos) - 1)
                 par == Deref(t.root, dir)
             IN  Some([t EXCEPT !.root =
                         Store(t.root, dir,
                               [par EXCEPT !.children =
                                  InsertAt(par.children, pos[Len(pos)], node)])])

\* An entry was created on disk next to the selected entry and is handed to
\* insert_and_adjust.
InsertAndAdjust ==
    /\ ~panicked
    /\ selection >= 1
    /\ selection <= Len(flatten(self)) - 1
    /\ LET level == parent(flatten(self)[selection + 1].path)[1]
       IN  \E k \in 1..Capacity(level) :
             LET node == New(PoolName(k), Append(level, PoolName(k)),
                             PoolIsDir(k))
                 r == insert_and_adjust(self, node)
             IN  /\ \A j \in 1..Len(flatten(self)) :
                       flatten(self)[j].path # node.path
                 /\ r # None
                 /\ Becomes(r[1])
    /\ ret' = NoCall
    /\ dropped' = NoCall
    /\ UNCHANGED <<cwd, panicked>>

NextInsert == Next \/ InsertAndAdjust

SpecInsert == Init /\ [][NextInsert]_vars

----------------------------------------------------------------------------
\* The owner of the FileTree keeps the node that take_selected returned in the
\* public field `copied` (a pending cut).

StoreCopied ==
    /\ ~panicked
    /\ ret # NoCall
    /\ ret[1] # None
    /\ copied' = ret[1]
    /\ ret' = NoCall
    /\ dropped' = NoCall
    /\ UNCHANGED <<root, selection, open, cwd, panicked>>

\* The life of a pending cut: move to an entry, take it, keep it, reload.
NextCut ==
    \/ MoveUp
    \/ MoveDown
    \/ GotoStart
    \/ GotoEnd
    \/ TakeSelected
    \/ StoreCopied
    \/ Reload

SpecCut == Init /\ [][NextCut]_vars

TypeOK ==
    /\ selection \in Nat
    /\ open \in BOOLEAN
    /\ panicked \in BOOLEAN
    /\ cwd \in Cwds
    /\ Len(ret) <= 1
    /\ Len(copied) <= 1
    /\ Len(dropped) <= 1

----------------------------------------------------------------------------
\* Vocabulary of the properties.

\* Every node of the graph below (and including) `node`.
RECURSIVE Descendants(_)
Descendants(node) ==
    {node} \cup UNION { Descendants(node.children[i]) :
                          i \in 1..Len(node.children) }

\* Every position of the graph below `node`, as a sequence of child indices.
RECURSIVE Positions(_)
Positions(node) ==
    {<<>>} \cup UNION { { <<i>> \o r : r \in Positions(node.children[i]) } :
                          i \in 1..Len(node.children) }

Front(s) == SubSeq(s, 1, Len(s) - 1)

FlatLen == Len(flatten(self))

\* The ordering rule, on two siblings a before b.
InDisplayOrder(a, b) ==
    /\ ~(~a.is_dir /\ b.is_dir)
    /\ a.is_dir = b.is_dir =>
          StrCmp(to_lowercase(a.name), to_lowercase(b.name)) # "Greater"
    /\ cmp(a, b) # "Greater"

SiblingsSorted(children) ==
    \A i, j \in 1..Len(children) : i < j => InDisplayOrder(children[i], children[j])

----------------------------------------------------------------------------
\* C1: after any sequence of operations the selection is an index of the
\* flattening, 0 <= selection <= flatten().len() - 1.
C1_SelectionInRange == selection >= 0 /\ selection <= FlatLen - 1

\* C2: in every reachable state the root is a directory and is expanded.
C2_RootStaysExpanded == root.is_dir /\ root.is_expanded

\* C3: in every reachable state a node that is not expanded has no children
\* and a node that is not a directory has no children.
C3_CollapsedAndFilesHaveNoChildren ==
    \A node \in Descendants(root) :
        /\ ~node.is_expanded => node.children = <<>>
        /\ ~node.is_dir => node.children = <<>>

\* C3 witness: the root was collapsed while selected, and before that (the
\* tree is open only after a reload) the tree was rebuilt.
C3_Witness ==
    /\ ~root.is_expanded
    /\ root.children = <<>>
    /\ open

\* C4: in every reachable state the children of every expanded directory are
\* in display order: directories first, then ascending case-insensitive
\* names.
C4_ChildrenSorted ==
    \A node \in Descendants(root) :
        (node.is_dir /\ node.is_expanded) => SiblingsSorted(node.children)

\* C4 witness: take_selected detached the first of the three children of the
\* root; a directory and a file remain, in this order.
C4_Witness ==
    /\ ret # NoCall /\ ret[1] # None
    /\ ret[1][1].path = Append(root.path, ret[1][1].name)
    /\ Len(root.children) = 2
    /\ root.children[1].is_dir /\ ~root.children[2].is_dir
    /\ cmp(ret[1][1], root.children[1]) = "Less"

\* C5: take_selected with a non-root node selected returns a node with the
\* path of the node that was selected, removes exactly that one entry from
\* the children of its parent, keeps the other entries of the parent in
\* their order and changes nothing else of the graph.
C5_TakeDetachesSelected ==
    [][ (ret' # NoCall /\ selection >= 1 /\ selection <= FlatLen - 1
           /\ TakeSelected) =>
          LET sel == flatten(self)[selection + 1]
          IN  /\ ~panicked'
              /\ ret' # NoCall /\ ret'[1] # None
              /\ ret'[1][1].path = sel.path
              /\ \E pos \in Positions(root) \ {<<>>} :
                   LET par == Deref(root, Front(pos))
                       k == pos[Len(pos)]
                       after == Deref(root', Front(pos))
                   IN  /\ Deref(root, pos).path = sel.path
                       /\ Len(after.children) = Len(par.children) - 1
                       /\ \A i \in 1..Len(after.children) :
                            after.children[i] =
                               IF i < k THEN par.children[i]
                               ELSE par.children[i + 1]
                       /\ root' = Store(root, Front(pos), after)
                       /\ after = [par EXCEPT !.children = after.children] ]_vars

\* C5 witness: a node two levels below the root, not the first of its
\* siblings, was detached and a sibling stayed behind.
C5_Witness ==
    /\ ret # NoCall /\ ret[1] # None
    /\ DiskDepth(ret[1][1].path) = 2
    /\ \E d \in Descendants(root) :
          /\ d.path = Front(ret[1][1].path)
          /\ Len(d.children) = 1
          /\ cmp(d.children[1], ret[1][1]) = "Less"

\* C6: take_selected with the root selected returns no node and leaves the
\* node graph, the selection and copied as they were.
C6_TakeRootFails ==
    [][ (ret' # NoCall /\ selection = 0 /\ TakeSelected) =>
          /\ ret' = <<None>>
          /\ root' = root
          /\ selection' = selection
          /\ copied' = copied ]_vars

\* C6 witness: take_selected returned nothing with the root selected and the
\* root has children that could have been lost.
C6_Witness ==
    /\ ret = <<None>>
    /\ selection = 0
    /\ ~panicked
    /\ Len(root.children) >= 2

\* C7: for every index i of the flattening, the recursive descent of
\* selected_ and of selected_mut_ from the root ends at flatten()[i]; so
\* selected() and selected_mut() return the node at index selection.
C7_SelectedAgreesWithFlatten ==
    LET flat == flatten(self)
    IN  /\ \A i \in 0..(Len(flat) - 1) :
              LET borrow == selected_mut_(root, i, <<>>).result
              IN  /\ selected_(root, i).result = Some(flat[i + 1])
                  /\ borrow # None
                  /\ Deref(root, borrow[1]) = flat[i + 1]
        /\ selection <= Len(flat) - 1 =>
              /\ selected(self) = Some(flat[selection + 1])
              /\ selected_mut(self) # None
              /\ Deref(root, selected_mut(self)[1]) = flat[selection + 1]

\* C7 witness: the selection is on the last entry, which lies behind an
\* expanded first child with children of its own.
C7_Witness ==
    /\ Len(root.children) >= 2
    /\ Len(root.children[1].children) >= 2
    /\ selection = FlatLen - 1
    /\ selected(self) = Some(root.children[Len(root.children)])

\* C8: selected() and selected_mut() return a node for every value of the
\* selection, also one past the end of the flattening.
C8_SelectedNeverFails == selected(self) # None /\ selected_mut(self) # None

\* C9: after move_up() and after move_down() the selection is within
\* [0, flatten().len() - 1].
C9_MoveKeepsSelectionInRange ==
    [][ (MoveUp \/ MoveDown) =>
          (selection' >= 0 /\ selection' <= Len(flatten(self')) - 1) ]_vars

\* C10: the flattening is never empty, its first entry is the root, and
\* flatten_with_depth reports depth 0 for it.
C10_FlattenStartsAtRoot ==
    /\ Len(flatten(self)) >= 1
    /\ flatten(self)[1] = root
    /\ Len(flatten_with_depth(self)) = Len(flatten(self))
    /\ flatten_with_depth(self)[1] = <<root, 0>>

\* C10 witness: a flattening with entries at depth 1 and depth 2 behind the
\* root.
C10_Witness ==
    /\ Len(flatten_with_depth(self)) >= 4
    /\ \E i \in 1..Len(flatten_with_depth(self)) :
          flatten_with_depth(self)[i][2] = 2

\* C11: when expand() acts on the entry at index i and depth d of the
\* flattening and the listing read has k >= 1 entries, the k entries that
\* follow index i are the listed entries, in listing order, at depth d + 1.
C11_ExpandedChildrenFollow ==
    [][ (ret' = NoCall /\ selection' = selection /\ open' = open
           /\ selection <= FlatLen - 1 /\ ExpandSelected) =>
          LET before == flatten_with_depth(self)
              after == flatten_with_depth(self')
              i == selection + 1
              d == before[i][2]
              k == Len(after[i][1].children)
          IN  /\ after[i][2] = d
              /\ \E dir \in read_dir_sorted(before[i][1].path) :
                   /\ Len(dir) = k
                   /\ Len(after) >= i + k
                   /\ \A j \in 1..k :
                        /\ after[i + j][2] = d + 1
                        /\ after[i + j][1].name = dir[j].file_name
                        /\ after[i + j][1].path = dir[j].path
                        /\ after[i + j][1].is_dir = dir[j].is_dir ]_vars

\* C11 witness: the first child of the root is selected and expanded, its
\* two children follow it at depth 2 and a sibling at depth 1 comes after
\* them.
C11_Witness ==
    LET flat == flatten_with_depth(self)
    IN  /\ selection = 1
        /\ Len(flat) >= 5
        /\ flat[2][1].is_expanded /\ Len(flat[2][1].children) = 2
        /\ flat[2][2] = 1
        /\ flat[3][2] = 2 /\ flat[4][2] = 2
        /\ flat[5][2] = 1

\* C12: for the selected node in any reachable state and any listing its
\* directory may have, expand() then collapse() then expand(), the directory
\* listing the same both times, leaves the children (same paths, same
\* order) that a single expand() leaves.
C12_ExpandCollapseExpand ==
    LET borrow == selected_mut(self)
    IN  borrow # None =>
          LET node == Deref(root, borrow[1])
          IN  \A dir \in read_dir_sorted(node.path) :
                LET once == expand(node, dir)
                    again == expand(collapse(expand(node, dir)), dir)
                IN  /\ again.children = once.children
                    /\ Len(again.children) = Len(dir)
                    /\ \A j \in 1..Len(dir) :
                          again.children[j].path = dir[j].path

\* C12 witness: the selected directory is expanded, holds two children, and
\* the first of them was expanded in turn, so that what is loaded differs
\* from every fresh listing.
C12_Witness ==
    /\ selection = 1
    /\ Len(root.children) >= 1
    /\ root.children[1].is_dir /\ root.children[1].is_expanded
    /\ Len(root.children[1].children) = 2
    /\ root.children[1].children[1].is_expanded

\* C13: goto_end() sets the selection to flatten().len() - 1 and
\* goto_start() sets it to 0, whatever the selection was; neither touches
\* the node graph.
C13_GotoStartGotoEnd ==
    [][ /\ (ret' = NoCall /\ root' = root /\ GotoEnd) =>
              selection' = Cardinality(Positions(root)) - 1
                 /\ selection' = Len(flatten(self)) - 1
        /\ (ret' = NoCall /\ root' = root /\ GotoStart) =>
              selection' = 0 ]_vars

\* C13 witness: the selection is on the last of at least four entries, where
\* only goto_end() or repeated move_down() put it.
C13_Witness ==
    /\ FlatLen >= 4
    /\ selection = FlatLen - 1
    /\ ret = NoCall

\* C14: from a selection i with 0 < i < len - 1, move_down() followed by
\* move_up() ends at i again.
C14_DownThenUp ==
    (0 < selection /\ selection < FlatLen - 1) =>
        /\ move_down(self).selection = selection + 1
        /\ move_up(move_down(self)).selection = selection
        /\ move_up(move_down(self)).root = root

\* C14 witness: a selection strictly inside the flattening, the entry after
\* it being the last one.
C14_Witness ==
    /\ 0 < selection
    /\ selection = FlatLen - 2

\* What FileTree::new can put below the root of each working directory: the
\* entries of one listing, converted by From (collapsed, without children).
FreshChildren ==
    [c \in Cwds |-> { FromListing(dir) : dir \in read_dir_sorted(c) }]

\* C15: reload() leaves a root built from the working directory alone: an
\* expanded directory whose children are the entries of one listing of the
\* working directory, each collapsed and without children; the selection is
\* 0 and open is true.  A step that leaves `dropped` set is a reload.
C15_ReloadRebuilds ==
    [][ dropped' # NoCall =>
          /\ selection' = 0
          /\ open' = TRUE
          /\ root'.path = cwd /\ root'.is_dir /\ root'.is_expanded
          /\ root'.children \in FreshChildren[cwd]
          /\ \A j \in 1..Len(root'.children) :
                ~root'.children[j].is_expanded
                   /\ root'.children[j].children = <<>> ]_vars

\* C15 witness: a reload has just run and left three collapsed children
\* below the root, the selection at 0 and the tree open.
C15_Witness ==
    /\ dropped # NoCall
    /\ open
    /\ selection = 0
    /\ root.is_expanded
    /\ Len(root.children) = 3
    /\ \A j \in 1..Len(root.children) :
          ~root.children[j].is_expanded /\ root.children[j].children = <<>>

\* C16: insert_and_adjust(node) on a tree whose sibling sequences are in
\* display order leaves every sibling sequence in display order, the one
\* that received the node included.
C16_InsertKeepsSorted ==
    [][ (ret' = NoCall /\ selection' = selection /\ root' # root
           /\ (\A n \in Descendants(root) : SiblingsSorted(n.children))
           /\ InsertAndAdjust) =>
          \A n \in Descendants(root') : SiblingsSorted(n.children) ]_vars

\* C17: take_selected() leaves the selection index as it was, whether it
\* detaches a node or returns nothing.
C17_TakeKeepsSelection ==
    [][ (ret' # NoCall /\ TakeSelected) => selection' = selection ]_vars

\* C17 witness: the last entry of the flattening was detached and the
\* selection still holds its index, now one past the end.
C17_Witness ==
    /\ ret # NoCall /\ ret[1] # None
    /\ selection >= 2
    /\ selection = FlatLen

\* C18: in every reachable state every node that is marked expanded is a
\* directory (expand() on a file does not mark it).
C18_OnlyDirectoriesExpanded ==
    \A node \in Descendants(root) : node.is_expanded => node.is_dir

\* C19: expand() or collapse() on the selected node leaves the selection
\* index as it was; the entries of the flattening up to and including the
\* selected one stay the same entries (path, name, kind, depth, and for the
\* ones before the selection the expanded flag), and the selection resolves
\* to a node with the same path as before.
C19_ExpandCollapseKeepPrefix ==
    [][ (ret' = NoCall /\ open' = open
           /\ (ExpandSelected \/ CollapseSelected)) =>
          /\ selection' = selection
          /\ selection <= FlatLen - 1 =>
                LET before == flatten_with_depth(self)
                    after == flatten_with_depth(self')
                IN  /\ Len(after) >= selection + 1
                    /\ \A j \in 1..(selection + 1) :
                          /\ after[j][1].path = before[j][1].path
                          /\ after[j][1].name = before[j][1].name
                          /\ after[j][1].is_dir = before[j][1].is_dir
                          /\ after[j][2] = before[j][2]
                          /\ j <= selection =>
                                after[j][1].is_expanded
                                   = before[j][1].is_expanded
                    /\ selected(self') # None
                    /\ selected(self')[1].path = selected(self)[1].path ]_vars

\* C19 witness: the selected entry is an expanded directory with a child,
\* it is not the first child of the root, and the sibling before it is
\* expanded with children of its own.
C19_Witness ==
    /\ selection >= 4
    /\ selection <= FlatLen - 2
    /\ Len(root.children) >= 2
    /\ root.children[1].is_expanded /\ Len(root.children[1].children) >= 2
    /\ selected(self) = Some(root.children[2])
    /\ root.children[2].is_expanded /\ root.children[2].children # <<>>

\* C20: reload() always leaves `copied` empty: a detached node held in
\* `copied` before the reload is dropped with the old tree.
C20_ReloadDropsCopied ==
    [][ (dropped' # NoCall /\ Reload) => copied' = None ]_vars

\* C20 witness: a reload has just dropped a held node.
C20_Witness ==
    /\ dropped # NoCall /\ dropped[1] # None
    /\ copied = None
    /\ open
    /\ selection = 0
====
